---- MODULE Spec2Model ----
(***************************************************************************)
(* Knowledge-based Minesweeper player (src/minesweeper/minesweeper.py).    *)
(*                                                                         *)
(* The state is one Minesweeper board (its mine set) and one MinesweeperAI *)
(* (moves_made, mines, safes, knowledge).  Sentence objects are mutable    *)
(* and shared between self.knowledge and the list copies the code iterates *)
(* over, so during a call the AI is a record with a heap of Sentence       *)
(* objects and a list of references into it; between calls the knowledge   *)
(* list is kept as the sequence of the sentences' values.                  *)
(***************************************************************************)
EXTENDS Integers, Sequences, FiniteSets, TLC

VARIABLES height, width, board, moves_made, mines, safes, knowledge, op, ret, raised

vars == <<height, width, board, moves_made, mines, safes, knowledge, op, ret, raised>>

\* ---- bounds of the model ----
MaxHeight == 3
MaxWidth == 3
MaxCells == 9
MaxMines == 2

\* Python's None, as returned by the move selectors.
None == <<>>

\* All cells of an h x w board, (row, column), 0-based.
Cells(h, w) == (0 .. h - 1) \X (0 .. w - 1)

\* The 3x3 window range(cell[0]-1, cell[0]+2) x range(cell[1]-1, cell[1]+2).
Window(cell) == (cell[1] - 1 .. cell[1] + 1) \X (cell[2] - 1 .. cell[2] + 1)

\* Minesweeper.is_mine
is_mine(cell) == cell \in board

\* Minesweeper.nearby_mines: mines within one row and column, cell excluded.
nearby_mines(cell) ==
    Cardinality({c \in Window(cell) :
                    /\ c # cell
                    /\ 0 <= c[1] /\ c[1] < height /\ 0 <= c[2] /\ c[2] < width
                    /\ c \in board})

\* ---- class Sentence ----
Sentence(cells, count) == [cells |-> cells, count |-> count]

\* Result of known_mines / known_safes: None, or the tuple of the cells.
NoneCells == [isNone |-> TRUE, cells |-> {}]
TupleOf(cells) == [isNone |-> FALSE, cells |-> cells]

\* Python truth value of such a result: None and the empty tuple are false.
Truthy(r) == ~r.isNone /\ r.cells # {}

\* Variant: the result is never returned, so the caller always gets None.
known_mines_noreturn(s) == NoneCells

known_mines(s) == IF Cardinality(s.cells) = s.count THEN TupleOf(s.cells) ELSE NoneCells

known_safes(s) == IF s.count = 0 THEN TupleOf(s.cells) ELSE NoneCells

\* Variant: the cell is removed but the count is not decremented.
Sentence_mark_mine_keepcount(s, cell) ==
    IF cell \in s.cells THEN [cells |-> s.cells \ {cell}, count |-> s.count] ELSE s

Sentence_mark_mine(s, cell) ==
    IF cell \in s.cells THEN [cells |-> s.cells \ {cell}, count |-> s.count - 1] ELSE s

\* Variant: the count is decremented as in mark_mine.
Sentence_mark_safe_decrement(s, cell) ==
    IF cell \in s.cells THEN [cells |-> s.cells \ {cell}, count |-> s.count - 1] ELSE s

Sentence_mark_safe(s, cell) ==
    IF cell \in s.cells THEN [cells |-> s.cells \ {cell}, count |-> s.count] ELSE s

\* ---- class MinesweeperAI, as a record during a call ----
\* heap: the Sentence objects created so far; knowledge: references into heap.
InList(id, list) == \E k \in 1 .. Len(list) : list[k] = id

\* list.index by value (Sentence.__eq__): first position holding an equal sentence, 0 if none.
IndexOf(ai, s) ==
    IF \E k \in 1 .. Len(ai.knowledge) : ai.heap[ai.knowledge[k]] = s
    THEN CHOOSE k \in 1 .. Len(ai.knowledge) :
            /\ ai.heap[ai.knowledge[k]] = s
            /\ \A m \in 1 .. k - 1 : ai.heap[ai.knowledge[m]] # s
    ELSE 0

RemoveAt(list, k) == [m \in 1 .. Len(list) - 1 |-> IF m < k THEN list[m] ELSE list[m + 1]]

\* self.knowledge.remove(sentence): ValueError when no equal sentence is in the list.
ListRemove(ai, s) ==
    LET k == IndexOf(ai, s) IN
    IF k = 0 THEN [ai EXCEPT !.err = TRUE]
    ELSE [ai EXCEPT !.knowledge = RemoveAt(@, k)]

\* self.knowledge.append(Sentence(cells, count)): a new object.
ListAppend(ai, s) ==
    [ai EXCEPT !.heap = Append(@, s), !.knowledge = Append(@, Len(ai.heap) + 1)]

\* Variant: the cell is recorded but not propagated into the sentences.
mark_mine_noprop(ai, cell) == [ai EXCEPT !.mines = @ \cup {cell}]

mark_mine(ai, cell) ==
    [ai EXCEPT !.mines = @ \cup {cell},
               !.heap = [id \in DOMAIN @ |->
                           IF InList(id, ai.knowledge)
                           THEN Sentence_mark_mine(@[id], cell) ELSE @[id]]]

\* Variant: a cell that is already in safes is taken out of it again.
mark_safe_toggle(ai, cell) ==
    IF cell \in ai.safes THEN [ai EXCEPT !.safes = @ \ {cell}]
    ELSE [ai EXCEPT !.safes = @ \cup {cell},
                    !.heap = [id \in DOMAIN @ |->
                                IF InList(id, ai.knowledge)
                                THEN Sentence_mark_safe(@[id], cell) ELSE @[id]]]

mark_safe(ai, cell) ==
    IF cell \in ai.safes THEN ai
    ELSE [ai EXCEPT !.safes = @ \cup {cell},
                    !.heap = [id \in DOMAIN @ |->
                                IF InList(id, ai.knowledge)
                                THEN Sentence_mark_safe(@[id], cell) ELSE @[id]]]

RECURSIVE MarkMines(_, _)
\* for mine in mines: self.mark_mine(mine)
MarkMines(ai, cs) ==
    IF cs = {} THEN ai
    ELSE LET c == CHOOSE c \in cs : TRUE IN MarkMines(mark_mine(ai, c), cs \ {c})

RECURSIVE MarkSafes(_, _)
\* for safe in safes: self.mark_safe(safe)
MarkSafes(ai, cs) ==
    IF cs = {} THEN ai
    ELSE LET c == CHOOSE c \in cs : TRUE IN MarkSafes(mark_safe(ai, c), cs \ {c})

\* Variant: known mines in the window are excluded without lowering the count.
add_neighbour_mines_knowledge_keepcount(ai, cell, count) ==
    LET inb == {c \in Window(cell) :
                   0 <= c[1] /\ c[1] < height /\ 0 <= c[2] /\ c[2] < width}
        neighbour_cells == {c \in inb : c \notin ai.mines
                                        /\ c \notin (ai.moves_made \cup ai.safes)}
    IN ListAppend(ai, Sentence(neighbour_cells, count))

\* Variant: cells known safe but not yet played are taken into the sentence.
add_neighbour_mines_knowledge_withsafes(ai, cell, count) ==
    LET inb == {c \in Window(cell) :
                   0 <= c[1] /\ c[1] < height /\ 0 <= c[2] /\ c[2] < width}
        neighbour_cells == {c \in inb : c \notin ai.mines /\ c \notin ai.moves_made}
    IN ListAppend(ai, Sentence(neighbour_cells,
                               count - Cardinality(inb \cap ai.mines)))

add_neighbour_mines_knowledge(ai, cell, count) ==
    LET inb == {c \in Window(cell) :
                   0 <= c[1] /\ c[1] < height /\ 0 <= c[2] /\ c[2] < width}
        neighbour_cells == {c \in inb : c \notin ai.mines
                                        /\ c \notin (ai.moves_made \cup ai.safes)}
    IN ListAppend(ai, Sentence(neighbour_cells,
                               count - Cardinality(inb \cap ai.mines)))

\* if mines or safes: self.knowledge.remove(sentence); flag = True (lines 260-262)
msm_remove(ai, sentence) ==
    IF Truthy(known_mines(sentence)) \/ Truthy(known_safes(sentence))
    THEN [ListRemove(ai, sentence) EXCEPT !.flag = TRUE]
    ELSE ai

\* if mines: for mine in mines: self.mark_mine(mine) (lines 263-265)
msm_mark_mines(ai, ms) == IF Truthy(ms) THEN MarkMines(ai, ms.cells) ELSE ai

\* Variant: the cells of a sentence of count 0 are not marked.
msm_mark_safes_skip(ai, ss) == ai

\* if safes: for safe in safes: self.mark_safe(safe) (lines 266-268)
msm_mark_safes(ai, ss) == IF Truthy(ss) THEN MarkSafes(ai, ss.cells) ELSE ai

\* Lines 263-268 for the results `ms`, `ss` computed at lines 258-259; skipped
\* when the remove raised.
msm_mark(ai, ms, ss) ==
    IF ai.err THEN ai ELSE msm_mark_safes(msm_mark_mines(ai, ms), ss)

\* One iteration of the for loop of mark_safe_and_mine (lines 258-268) on the
\* object `id` of the copied list.
msm_body(ai, id) ==
    msm_mark(msm_remove(ai, ai.heap[id]), known_mines(ai.heap[id]), known_safes(ai.heap[id]))

RECURSIVE msm_for(_, _, _)
\* for sentence in self.knowledge.copy(): ... (lines 257-268); an exception ends it.
msm_for(ai, copy, i) ==
    IF i > Len(copy) \/ ai.err THEN ai
    ELSE msm_for(msm_body(ai, copy[i]), copy, i + 1)

\* if sentence.cells == set([]): self.knowledge.remove(sentence) (lines 270-271)
msm_purge_body(ai, id) ==
    IF ai.heap[id].cells = {} THEN ListRemove(ai, ai.heap[id]) ELSE ai

RECURSIVE msm_purge(_, _, _)
\* for sentence in self.knowledge.copy(): ... (lines 269-271)
msm_purge(ai, copy, i) ==
    IF i > Len(copy) \/ ai.err THEN ai
    ELSE msm_purge(msm_purge_body(ai, copy[i]), copy, i + 1)

RECURSIVE msm_while(_)
\* Variant: a single pass, `if flag` in place of `while flag`.
msm_again_once(ai) ==
    IF ai.err THEN ai ELSE msm_purge(ai, ai.knowledge, 1)

\* The test of `while flag` after a pass; the purge follows the loop.
msm_again(ai) ==
    IF ai.err THEN ai
    ELSE IF ai.flag THEN msm_while(ai)
    ELSE msm_purge(ai, ai.knowledge, 1)

\* flag = False, then one pass over a fresh copy of the list (lines 256-268).
msm_while(ai) == msm_again(msm_for([ai EXCEPT !.flag = FALSE], ai.knowledge, 1))

\* MinesweeperAI.mark_safe_and_mine; `flag` is its local variable.
mark_safe_and_mine(ai) == msm_while(ai)

RECURSIVE rss_for(_, _, _)
\* remove_same_sentence: keep the first of each group of value-equal sentences.
rss_for(ai, i, new_knowledge) ==
    IF i > Len(ai.knowledge) THEN new_knowledge
    ELSE rss_for(ai, i + 1,
                 IF \E k \in 1 .. Len(new_knowledge) :
                        ai.heap[new_knowledge[k]] = ai.heap[ai.knowledge[i]]
                 THEN new_knowledge
                 ELSE Append(new_knowledge, ai.knowledge[i]))

remove_same_sentence(ai) == [ai EXCEPT !.knowledge = rss_for(ai, 1, <<>>)]

\* Variant: only the pairs in list order are examined, as
\* itertools.combinations would give them.
efp_subset_inorder(ai, i, j) ==
    i < j /\ ai.heap[ai.knowledge[i]].cells \subseteq ai.heap[ai.knowledge[j]].cells

\* s1.issubset(s2) for the sentences at positions i and j of the list.
efp_subset(ai, i, j) ==
    i # j /\ ai.heap[ai.knowledge[i]].cells \subseteq ai.heap[ai.knowledge[j]].cells

RECURSIVE efp_pairs(_, _, _)
\* itertools.permutations(self.knowledge, 2) in its order, filtered by
\* s1.issubset(s2) (lines 282-287): the sequence of pairs (k1, k2) of references.
\* Position p counts the index pairs (i, j) row by row.
efp_pairs(ai, p, acc) ==
    IF p >= Len(ai.knowledge) * Len(ai.knowledge) THEN acc
    ELSE efp_pairs(ai, p + 1,
             IF efp_subset(ai, (p \div Len(ai.knowledge)) + 1, (p % Len(ai.knowledge)) + 1)
             THEN Append(acc, <<ai.knowledge[(p \div Len(ai.knowledge)) + 1],
                                ai.knowledge[(p % Len(ai.knowledge)) + 1]>>)
             ELSE acc)

\* Variant: the derived sentence keeps k2.count instead of k2.count - k1.count.
efp_derive_keepcount(k1, k2) == Sentence(k2.cells \ k1.cells, k2.count)

\* Sentence(k2.cells - k1.cells, k2.count - k1.count) (lines 290-292)
efp_derive(k1, k2) == Sentence(k2.cells \ k1.cells, k2.count - k1.count)

\* Variant: the supersets are removed but no derived sentence is appended.
efp_append_skip(ai, pairs, i) == ai

RECURSIVE efp_append(_, _, _)
\* for (k1, k2) in knowledge_subset_list: self.knowledge.append(...) (lines 289-292)
efp_append(ai, pairs, i) ==
    IF i > Len(pairs) THEN ai
    ELSE efp_append(ListAppend(ai, efp_derive(ai.heap[pairs[i][1]], ai.heap[pairs[i][2]])),
                    pairs, i + 1)

\* Variant: the superset sentence is left in the list.
efp_remove_body_keep(ai, sentence) == ai

\* Variant: the removal is not guarded by `if sentence in self.knowledge`.
efp_remove_body_noguard(ai, sentence) == ListRemove(ai, sentence)

\* if sentence in self.knowledge: self.knowledge.remove(sentence) (lines 295-296)
efp_remove_body(ai, sentence) ==
    IF IndexOf(ai, sentence) # 0 THEN ListRemove(ai, sentence) ELSE ai

RECURSIVE efp_remove(_, _, _)
\* for sentence in remove_sentence: ... (lines 294-296)
efp_remove(ai, pairs, i) ==
    IF i > Len(pairs) THEN ai
    ELSE efp_remove(efp_remove_body(ai, ai.heap[pairs[i][2]]), pairs, i + 1)

RECURSIVE extract_from_problem(_)
\* Variant: the direct resolution is re-run but not the subset deduction.
efp_rerun_once(ai, flag) == IF flag THEN mark_safe_and_mine(ai) ELSE ai

\* if flag: self.mark_safe_and_mine(); self.extract_from_problem() (lines 298-300)
efp_rerun(ai, flag) ==
    IF flag THEN extract_from_problem(mark_safe_and_mine(ai)) ELSE ai

\* Lines 289-296 for the subset pairs found at lines 282-287: one round of the
\* subset deduction; `flag` tells whether a pair was found.
efp_round(ai, pairs) ==
    [efp_remove(efp_append(ai, pairs, 1), pairs, 1) EXCEPT !.flag = pairs # <<>>]

\* Lines 289-300 for the subset pairs found at lines 282-287.
efp_apply(ai, pairs) == efp_rerun(efp_round(ai, pairs), pairs # <<>>)

\* Lines 279-300 on the deduplicated list.
efp_deduce(ai) == efp_apply(ai, efp_pairs(ai, 0, <<>>))

\* MinesweeperAI.extract_from_problem; not entered when the statement before raised.
extract_from_problem(ai) ==
    IF ai.err THEN ai ELSE efp_deduce(remove_same_sentence(ai))

\* The AI object at the start of a call: every sentence of the list is its own object.
Self ==
    [heap |-> knowledge, knowledge |-> [k \in 1 .. Len(knowledge) |-> k],
     mines |-> mines, safes |-> safes, moves_made |-> moves_made,
     err |-> FALSE, flag |-> FALSE]

\* The values of the sentences in self.knowledge, in list order.
KnowledgeOf(ai) == [k \in 1 .. Len(ai.knowledge) |-> ai.heap[ai.knowledge[k]]]

\* self.moves_made.add(cell) (line 195)
add_move(ai, cell) == [ai EXCEPT !.moves_made = @ \cup {cell}]

\* Variant: the cell is recorded as a move but not marked safe.
add_knowledge_result_nomark(cell, count) ==
    extract_from_problem(mark_safe_and_mine(
        add_neighbour_mines_knowledge(add_move(Self, cell), cell, count)))

\* Variant: line 198 is missing; the direct resolution runs only as the re-run
\* of extract_from_problem.
add_knowledge_result_noresolve(cell, count) ==
    extract_from_problem(
        add_neighbour_mines_knowledge(mark_safe(add_move(Self, cell), cell), cell, count))

\* MinesweeperAI.add_knowledge (lines 195-199).
add_knowledge_result(cell, count) ==
    extract_from_problem(mark_safe_and_mine(
        add_neighbour_mines_knowledge(mark_safe(add_move(Self, cell), cell), cell, count)))

\* The driver holds no selector result: the next call can start.
Ready == op = "none"

\* The board reveals a cell that is no mine and the AI is told its true count.
observe(cell) ==
    /\ ~is_mine(cell)
    /\ LET r == add_knowledge_result(cell, nearby_mines(cell)) IN
          /\ moves_made' = r.moves_made
          /\ mines' = r.mines
          /\ safes' = r.safes
          /\ knowledge' = KnowledgeOf(r)
          /\ raised' = r.err
    /\ UNCHANGED <<height, width, board>>

\* A call of add_knowledge by any caller, for any cell that is no mine.
add_knowledge(cell) ==
    /\ Ready
    /\ observe(cell)
    /\ UNCHANGED <<op, ret>>

\* Variant: any known safe cell is returned, moves made included.
make_safe_move_any(c) ==
    /\ Ready
    /\ IF safes = {} THEN c = None ELSE c \in safes
    /\ op' = "make_safe_move"
    /\ ret' = c
    /\ UNCHANGED <<height, width, board, moves_made, mines, safes, knowledge, raised>>

\* MinesweeperAI.make_safe_move returning c: any element of safes - moves_made
\* (set.pop of a temporary), None when pop raises on the empty set.
make_safe_move(c) ==
    /\ Ready
    /\ IF safes \ moves_made = {} THEN c = None ELSE c \in safes \ moves_made
    /\ op' = "make_safe_move"
    /\ ret' = c
    /\ UNCHANGED <<height, width, board, moves_made, mines, safes, knowledge, raised>>

\* Variant: known mines are not filtered out of the candidates.
choice_withmines == {c \in Cells(height, width) : c \notin moves_made}

\* The list `choice` built by make_random_move (lines 222-226), as a set.
choice == {c \in Cells(height, width) : c \notin mines /\ c \notin moves_made}

\* Variant: the selector records the returned cell as a move made.
make_random_move_record(c) ==
    /\ Ready
    /\ IF choice = {} THEN c = None ELSE c \in choice
    /\ op' = "make_random_move"
    /\ ret' = c
    /\ moves_made' = IF c = None THEN moves_made ELSE moves_made \cup {c}
    /\ UNCHANGED <<height, width, board, mines, safes, knowledge, raised>>

\* MinesweeperAI.make_random_move returning c: random.choice(choice), None when
\* random.choice raises on the empty list.
make_random_move(c) ==
    /\ Ready
    /\ IF choice = {} THEN c = None ELSE c \in choice
    /\ op' = "make_random_move"
    /\ ret' = c
    /\ UNCHANGED <<height, width, board, moves_made, mines, safes, knowledge, raised>>

\* Minesweeper.__init__ and MinesweeperAI.__init__ with the same height and width.
Init ==
    /\ height \in 1 .. MaxHeight
    /\ width \in 1 .. MaxWidth
    /\ height * width <= MaxCells
    /\ board \in {b \in SUBSET Cells(height, width) : Cardinality(b) <= MaxMines}
    /\ moves_made = {}
    /\ mines = {}
    /\ safes = {}
    /\ knowledge = <<>>
    /\ op = "none"
    /\ ret = None
    /\ raised = FALSE

AddKnowledge == \E cell \in Cells(height, width) : add_knowledge(cell)

MakeSafeMove == \E c \in Cells(height, width) \cup {None} : make_safe_move(c)

MakeRandomMove == \E c \in Cells(height, width) \cup {None} : make_random_move(c)

\* The caller has taken the selector's return value; the AI is untouched.
TakeMove ==
    /\ ~Ready
    /\ op' = "none"
    /\ ret' = None
    /\ UNCHANGED <<height, width, board, moves_made, mines, safes, knowledge, raised>>

Next == AddKnowledge \/ MakeSafeMove \/ MakeRandomMove \/ TakeMove

Spec == Init /\ [][Next]_vars

\* ---------------------------------------------------------------------------
\* The game on the 3x3 board whose single mine is at (0,0): the driver reveals
\* (1,1), then (2,2), then keeps playing the cells make_safe_move returns.
\* ---------------------------------------------------------------------------
Init6 ==
    /\ height = 3
    /\ width = 3
    /\ board = {<<0, 0>>}
    /\ moves_made = {}
    /\ mines = {}
    /\ safes = {}
    /\ knowledge = <<>>
    /\ op = "none"
    /\ ret = None
    /\ raised = FALSE

\* observe((1,1), 1)
ObserveCentre ==
    /\ Ready
    /\ moves_made = {}
    /\ observe(<<1, 1>>)
    /\ UNCHANGED <<op, ret>>

\* observe((2,2), 0)
ObserveCorner ==
    /\ Ready
    /\ moves_made = {<<1, 1>>}
    /\ observe(<<2, 2>>)
    /\ UNCHANGED <<op, ret>>

\* The driver asks for a safe move.
AskSafeMove ==
    /\ <<2, 2>> \in moves_made
    /\ MakeSafeMove

\* The driver reveals the returned cell and feeds back its true count.
PlaySafeMove ==
    /\ op = "make_safe_move"
    /\ ret # None
    /\ observe(ret)
    /\ op' = "none"
    /\ ret' = None

Next6 == ObserveCentre \/ ObserveCorner \/ AskSafeMove \/ PlaySafeMove

\* A reveal by the driver: one of its calls of add_knowledge.
Reveal6 == ObserveCentre \/ ObserveCorner \/ PlaySafeMove

\* The driver has a cell to reveal: this is ENABLED <<Reveal6>>_vars, every
\* reveal changing moves_made or op.
CanReveal6 ==
    \/ Ready /\ moves_made = {} /\ ~is_mine(<<1, 1>>)
    \/ Ready /\ moves_made = {<<1, 1>>} /\ ~is_mine(<<2, 2>>)
    \/ op = "make_safe_move" /\ ret # None /\ ~is_mine(ret)

\* The driver loop is synchronous and keeps running while it has a call to
\* make: weak fairness of its query, and weak fairness of its reveals written
\* out over CanReveal6.
Fair6 ==
    /\ WF_vars(AskSafeMove)
    /\ (<>[]CanReveal6 => []<><<Reveal6>>_vars)

Spec6 == Init6 /\ [][Next6]_vars /\ Fair6

\* ---------------------------------------------------------------------------
\* One Sentence object on its own: any cell set of the board with any count
\* from 0 to its size, and any sequence of mark_mine and mark_safe calls on it.
\* `knowledge` holds the one sentence, `op` the last method called and `ret`
\* its argument `cell`.
\* ---------------------------------------------------------------------------
Init11 ==
    /\ height \in 1 .. MaxHeight
    /\ width \in 1 .. MaxWidth
    /\ height * width <= MaxCells
    /\ board = {}
    /\ moves_made = {}
    /\ mines = {}
    /\ safes = {}
    /\ \E cells \in SUBSET Cells(height, width) :
          \E count \in 0 .. Cardinality(cells) : knowledge = <<Sentence(cells, count)>>
    /\ op = "none"
    /\ ret = None
    /\ raised = FALSE

\* sentence.mark_mine(cell)
SentenceMarkMine(cell) ==
    /\ knowledge' = <<Sentence_mark_mine(knowledge[1], cell)>>
    /\ op' = "Sentence.mark_mine"
    /\ ret' = cell
    /\ UNCHANGED <<height, width, board, moves_made, mines, safes, raised>>

\* sentence.mark_safe(cell)
SentenceMarkSafe(cell) ==
    /\ knowledge' = <<Sentence_mark_safe(knowledge[1], cell)>>
    /\ op' = "Sentence.mark_safe"
    /\ ret' = cell
    /\ UNCHANGED <<height, width, board, moves_made, mines, safes, raised>>

CallMarkMine11 == \E cell \in Cells(height, width) : SentenceMarkMine(cell)

CallMarkSafe11 == \E cell \in Cells(height, width) : SentenceMarkSafe(cell)

Next11 == CallMarkMine11 \/ CallMarkSafe11

Spec11 == Init11 /\ [][Next11]_vars

\* ---------------------------------------------------------------------------
\* MinesweeperAI.mark_safe called by the driver itself, on the knowledge base
\* any game has built: once with any cell of the board, then again with the
\* same cell. `op` is "mark_safe" after such a call and `ret` its argument.
\* ---------------------------------------------------------------------------
MarkSafe(cell) ==
    /\ Ready \/ (op = "mark_safe" /\ ret = cell)
    /\ LET r == mark_safe(Self, cell) IN
          /\ moves_made' = r.moves_made
          /\ mines' = r.mines
          /\ safes' = r.safes
          /\ knowledge' = KnowledgeOf(r)
    /\ op' = "mark_safe"
    /\ ret' = cell
    /\ UNCHANGED <<height, width, board, raised>>

CallMarkSafe == \E cell \in Cells(height, width) : MarkSafe(cell)

Next12 == AddKnowledge \/ CallMarkSafe

Spec12 == Init /\ [][Next12]_vars

\* ---------------------------------------------------------------------------
\* add_knowledge step by step. `op` is the position of the call in progress and
\* `ret` its argument `cell`:
\*   "mark_safe_and_mine"   line 197 is done, line 198 is next;
\*   "while"                in mark_safe_and_mine, the last pass set `flag`;
\*   "purge"                the while loop is left, line 269 is next;
\*   "extract_from_problem" mark_safe_and_mine returned, line 199 or 300 is next.
\* No reference to a Sentence object outlives a step: every pass copies the
\* list anew and every round of extract_from_problem collects its pairs anew.
\* ---------------------------------------------------------------------------
\* add_knowledge lines 195-197 on the AI as it stands.
add_knowledge_sentence(cell, count) ==
    add_neighbour_mines_knowledge(mark_safe(add_move(Self, cell), cell), cell, count)

\* The call starts: the move is recorded, the cell marked safe, the new
\* sentence appended.
add_knowledge_begin(cell) ==
    /\ Ready
    /\ ~is_mine(cell)
    /\ LET r == add_knowledge_sentence(cell, nearby_mines(cell)) IN
          /\ moves_made' = r.moves_made
          /\ mines' = r.mines
          /\ safes' = r.safes
          /\ knowledge' = KnowledgeOf(r)
          /\ raised' = r.err
    /\ op' = "mark_safe_and_mine"
    /\ ret' = cell
    /\ UNCHANGED <<height, width, board>>

\* One pass of the while loop of mark_safe_and_mine (lines 256-268).
msm_pass ==
    /\ op \in {"mark_safe_and_mine", "while"}
    /\ LET r == msm_for([Self EXCEPT !.flag = FALSE], Self.knowledge, 1) IN
          /\ moves_made' = r.moves_made
          /\ mines' = r.mines
          /\ safes' = r.safes
          /\ knowledge' = KnowledgeOf(r)
          /\ raised' = r.err
          /\ op' = IF r.err THEN "none" ELSE IF r.flag THEN "while" ELSE "purge"
          /\ ret' = IF r.err THEN None ELSE ret
    /\ UNCHANGED <<height, width, board>>

\* The purge of the empty sentences after the loop (lines 269-271).
msm_finish ==
    /\ op = "purge"
    /\ LET r == msm_purge(Self, Self.knowledge, 1) IN
          /\ moves_made' = r.moves_made
          /\ mines' = r.mines
          /\ safes' = r.safes
          /\ knowledge' = KnowledgeOf(r)
          /\ raised' = r.err
          /\ op' = IF r.err THEN "none" ELSE "extract_from_problem"
          /\ ret' = IF r.err THEN None ELSE ret
    /\ UNCHANGED <<height, width, board>>

\* Lines 278-296 on the AI as it stands.
efp_once(ai) == efp_round(ai, efp_pairs(ai, 0, <<>>))

\* One round of extract_from_problem (lines 278-298): with a pair found the
\* call goes on at line 299, without one every frame returns.
efp_step ==
    /\ op = "extract_from_problem"
    /\ LET r == efp_once(remove_same_sentence(Self)) IN
          /\ moves_made' = r.moves_made
          /\ mines' = r.mines
          /\ safes' = r.safes
          /\ knowledge' = KnowledgeOf(r)
          /\ raised' = r.err
          /\ op' = IF ~r.err /\ r.flag THEN "while" ELSE "none"
          /\ ret' = IF ~r.err /\ r.flag THEN ret ELSE None
    /\ UNCHANGED <<height, width, board>>

AddKnowledgeBegin == \E cell \in Cells(height, width) : add_knowledge_begin(cell)

\* A step of the call in progress.
Running == op # "none"

Step == msm_pass \/ msm_finish \/ efp_step

NextSteps == AddKnowledgeBegin \/ msm_pass \/ msm_finish \/ efp_step

\* The call is synchronous code: once started it keeps executing. Every step
\* changes `op` or the list, so Running is ENABLED <<Step>>_vars and FairSteps
\* is WF_vars(Step) written out.
FairSteps == <>[]Running => []<><<Step>>_vars

SpecSteps == Init /\ [][NextSteps]_vars /\ FairSteps

\* ---------------------------------------------------------------------------
\* Properties
\* ---------------------------------------------------------------------------
Selectors == {"make_safe_move", "make_random_move"}

\* The in-bounds cells of the window of c that are still unresolved.
Unresolved(c) ==
    {d \in Window(c) \cap Cells(height, width) : d \notin mines \cup safes}

\* Sentence k of the list was derived by subset deduction: it is not what is
\* left of the sentence built for any observed cell.
Derived(k) == \A c \in moves_made : knowledge[k].cells # Unresolved(c)

\* C1: soundness. With true counts of non-mine cells, every cell the AI holds as
\* a mine is a mine of the board, no cell it holds as safe is one, and
\* make_safe_move never returns a mine.
C1_Sound ==
    /\ mines \subseteq board
    /\ safes \cap board = {}
    /\ (op = "make_safe_move" /\ ret # None) => ret \notin board

\* C1 witness: a safe move is returned after deduction found a mine and a safe
\* cell that was never revealed, while sentences are still unresolved.
C1_Witness ==
    /\ op = "make_safe_move" /\ ret # None
    /\ mines # {}
    /\ knowledge # <<>>

\* C2: after every completed add_knowledge call every sentence of the list has
\* 0 <= count <= |cells|.
C2_CountInRange ==
    \A k \in 1 .. Len(knowledge) :
        0 <= knowledge[k].count /\ knowledge[k].count <= Cardinality(knowledge[k].cells)

\* C2 witness: the list holds several sentences, one of them derived by subset
\* deduction with a count strictly between 0 and the number of its cells.
C2_Witness ==
    /\ Len(knowledge) >= 2
    /\ \E k \in 1 .. Len(knowledge) :
          /\ Derived(k)
          /\ 0 < knowledge[k].count
          /\ knowledge[k].count < Cardinality(knowledge[k].cells)

\* C3: a cell's status is never revised: mines and safes are disjoint in every
\* state, and no step removes a cell from either set.
C3_StatusNeverRevised ==
    /\ [](mines \cap safes = {})
    /\ [][mines \subseteq mines' /\ safes \subseteq safes']_vars

\* C3 witness: several observations and a move query later, both sets are populated.
C3_Witness ==
    /\ Cardinality(moves_made) >= 2
    /\ mines # {}
    /\ safes \ moves_made # {}
    /\ op \in Selectors

\* C4: after every completed add_knowledge call no cell of mines, safes or
\* moves_made is a member of a sentence of the list.
C4_ResolvedPurged ==
    \A k \in 1 .. Len(knowledge) :
        knowledge[k].cells \cap (mines \cup safes \cup moves_made) = {}

\* C4 witness: cells never revealed are known safe while a sentence created by
\* subset deduction is still in the list.
C4_Witness ==
    /\ safes \ moves_made # {}
    /\ \E k \in 1 .. Len(knowledge) : Derived(k)

\* C5: after every completed add_knowledge call the list holds no two equal
\* sentences and no sentence with an empty cell set.
C5_NoDuplicateNoEmpty ==
    /\ \A k \in 1 .. Len(knowledge) : knowledge[k].cells # {}
    /\ \A k, m \in 1 .. Len(knowledge) : k # m => knowledge[k] # knowledge[m]

\* C5 witness: a list of at least three sentences, one of them derived by
\* subset deduction.
C5_Witness ==
    /\ Len(knowledge) >= 3
    /\ \E k \in 1 .. Len(knowledge) : Derived(k)

\* C6: in the game on the 3x3 board with its single mine at (0,0), started with
\* observe((1,1), 1) and observe((2,2), 0) and continued with the safe moves
\* only, the AI eventually holds mines = {(0,0)}, and make_safe_move never
\* returns (0,0).
C6_EndToEnd ==
    /\ <>(mines = {<<0, 0>>})
    /\ [](op = "make_safe_move" => ret # <<0, 0>>)

\* C6 witness: both opening observations and further safe moves were played and
\* the mine at (0,0) is identified.
C6_Witness ==
    /\ {<<1, 1>>, <<2, 2>>} \subseteq moves_made
    /\ Cardinality(moves_made) >= 4
    /\ mines = {<<0, 0>>}
    /\ op = "none"

\* C7: make_safe_move returns a cell of safes - moves_made when there is one,
\* and None exactly when there is none.
C7_SafeMove ==
    op = "make_safe_move" =>
        /\ (ret = None) <=> (safes \ moves_made = {})
        /\ ret # None => (ret \in safes /\ ret \notin moves_made)

\* C7 witness: a safe move is returned while moves have been made, and leaves
\* another safe cell unplayed.
C7_Witness ==
    /\ op = "make_safe_move" /\ ret # None
    /\ moves_made # {}
    /\ safes \ (moves_made \cup {ret}) # {}

\* C8: make_random_move returns only an in-bounds cell that is neither a known
\* mine nor a move made, and None iff every cell is a known mine or a move made.
C8_RandomMove ==
    op = "make_random_move" =>
        /\ (ret = None) <=> (Cells(height, width) \subseteq mines \cup moves_made)
        /\ ret # None => (/\ ret \in Cells(height, width)
                          /\ ret \notin mines
                          /\ ret \notin moves_made)

\* C8 witness: a random move is returned while a mine is known and moves were made.
C8_Witness ==
    /\ op = "make_random_move" /\ ret # None
    /\ mines # {}
    /\ moves_made # {}

\* C9: the move selectors are pure queries: a call leaves moves_made, safes,
\* mines and the sentence list unchanged.
C9_SelectorsPure ==
    [][op' \in Selectors /\ op \notin Selectors
         => UNCHANGED <<moves_made, safes, mines, knowledge>>]_vars

\* C9 witness: a selector returned a cell on a knowledge base with sentences,
\* mines and unplayed safe cells.
C9_Witness ==
    /\ op \in Selectors /\ ret # None
    /\ knowledge # <<>>
    /\ mines # {}
    /\ safes \ moves_made # {}

\* C10: every cell of moves_made is in safes.
C10_MovesAreSafe == moves_made \subseteq safes

\* C10 witness: three moves were made and further cells are known safe.
C10_Witness ==
    /\ Cardinality(moves_made) >= 3
    /\ safes # moves_made

\* C11: Sentence.mark_mine on a sentence holding the cell removes exactly that
\* cell and lowers the count by exactly 1; Sentence.mark_safe on a sentence
\* holding the cell removes exactly that cell and leaves the count; either call
\* on a sentence not holding the cell, a repeated call included, changes nothing.
C11_SentenceLaws ==
    [][/\ op' = "Sentence.mark_mine" =>
            IF ret' \in knowledge[1].cells
            THEN /\ knowledge'[1].cells = knowledge[1].cells \ {ret'}
                 /\ knowledge'[1].count = knowledge[1].count - 1
            ELSE knowledge' = knowledge
       /\ op' = "Sentence.mark_safe" =>
            IF ret' \in knowledge[1].cells
            THEN /\ knowledge'[1].cells = knowledge[1].cells \ {ret'}
                 /\ knowledge'[1].count = knowledge[1].count
            ELSE knowledge' = knowledge]_vars

\* C11 witness: mark_mine has taken its cell out of a sentence whose count was
\* 0, and one cell is left.
C11_Witness ==
    /\ op = "Sentence.mark_mine"
    /\ ret \notin knowledge[1].cells
    /\ knowledge[1].count = -1
    /\ Cardinality(knowledge[1].cells) = 1

\* C12: MinesweeperAI.mark_safe is idempotent: on the knowledge base of any
\* game and for any cell, a second call with the same cell leaves safes, mines,
\* moves_made and the sentence list as the first call left them.
C12_MarkSafeIdempotent ==
    [][op = "mark_safe" => UNCHANGED <<safes, mines, moves_made, knowledge>>]_vars

\* C12 witness: the first call marked a cell that is no mine and was not known
\* safe, and took it out of a sentence, which is left with as many cells as
\* its count.
C12_Witness ==
    /\ op = "mark_safe"
    /\ ret \in safes \ moves_made
    /\ ret \notin board
    /\ \E k \in 1 .. Len(knowledge) :
          /\ knowledge[k].cells # {}
          /\ knowledge[k].count = Cardinality(knowledge[k].cells)

\* A sentence equal to s is in the list.
Holds(list, s) == \E k \in 1 .. Len(list) : list[k] = s

\* s is directly resolvable: its count is 0 or the number of its cells.
Resolvable(s) == s.count = 0 \/ s.count = Cardinality(s.cells)

\* Sentence a of the list is a superset of another sentence of the list.
SupersetOfAnother(a) ==
    \E c \in 1 .. Len(knowledge) :
        knowledge[c] # knowledge[a] /\ knowledge[c].cells \subseteq knowledge[a].cells

\* C13: when the list holds two distinct sentences A and B, neither directly
\* resolvable, with A.cells a proper subset of B.cells, one round of
\* extract_from_problem leaves the sentence (B.cells - A.cells, B.count -
\* A.count) in the list and no sentence equal to B, and A is still in the list
\* unless A is itself a superset of another sentence.
C13_SubsetRule ==
    [][op = "extract_from_problem" =>
         \A a, b \in 1 .. Len(knowledge) :
             (/\ knowledge[a] # knowledge[b]
              /\ knowledge[a].cells \subseteq knowledge[b].cells
              /\ knowledge[a].cells # knowledge[b].cells
              /\ ~Resolvable(knowledge[a])
              /\ ~Resolvable(knowledge[b]))
             => /\ Holds(knowledge', [cells |-> knowledge[b].cells \ knowledge[a].cells,
                                      count |-> knowledge[b].count - knowledge[a].count])
                /\ ~Holds(knowledge', knowledge[b])
                /\ ~SupersetOfAnother(a) => Holds(knowledge', knowledge[a])]_vars

\* C13 witness: a round has found a pair and the call goes on with a list that
\* holds a derived sentence which is not directly resolvable, next to others.
C13_Witness ==
    /\ op = "while"
    /\ Len(knowledge) >= 3
    /\ \E k \in 1 .. Len(knowledge) : Derived(k) /\ ~Resolvable(knowledge[k])

\* Sentence s of the list before a pass is resolved by it: no sentence equal
\* to s is left, the cells of s are in `marked`, and no sentence left holds one.
ResolvedInto(s, marked) ==
    /\ s.cells \subseteq marked
    /\ ~Holds(knowledge', s)
    /\ \A k \in 1 .. Len(knowledge') : knowledge'[k].cells \cap s.cells = {}

\* s has cells and its count is their number.
AllMines(s) == s.cells # {} /\ s.count = Cardinality(s.cells)

\* s has cells and its count is 0.
AllSafe(s) == s.cells # {} /\ s.count = 0

\* A pass of the loop resolves every sentence that the list held before it
\* with all its cells mines or all its cells safe.
PassResolves ==
    \A k \in 1 .. Len(knowledge) :
        /\ AllMines(knowledge[k]) => ResolvedInto(knowledge[k], mines')
        /\ AllSafe(knowledge[k]) => ResolvedInto(knowledge[k], safes')

\* C14: a pass of mark_safe_and_mine resolves every sentence of non-empty cells
\* whose count is the number of its cells (the sentence is removed, its cells
\* are in mines) or 0 (removed, its cells are in safes), the marking reaches
\* every other sentence, and passes repeat until no sentence is resolvable:
\* none is when the loop is left.
C14_DirectResolution ==
    /\ [](op \in {"purge", "extract_from_problem"} =>
            \A k \in 1 .. Len(knowledge) :
                knowledge[k].cells # {} => ~Resolvable(knowledge[k]))
    /\ [][(op = "mark_safe_and_mine" \/ op = "while") => PassResolves]_vars

\* C14 witness: a pass has resolved sentences and another pass is due; a mine
\* and a safe cell never revealed are known, one sentence was emptied by the
\* marking and another still has cells.
C14_Witness ==
    /\ op = "while"
    /\ mines # {}
    /\ safes \ moves_made # {}
    /\ \E k \in 1 .. Len(knowledge) : knowledge[k].cells = {}
    /\ \E k \in 1 .. Len(knowledge) : knowledge[k].cells # {}

\* C15: every call of add_knowledge returns: the while loop of
\* mark_safe_and_mine and the recursion of extract_from_problem through
\* mark_safe_and_mine into itself end after finitely many passes and rounds.
C15_Terminates == Running ~> (op = "none")

\* C15 witness: a call has returned after rounds of subset deduction; the list
\* holds derived sentences, and a mine and safe cells never revealed are known.
C15_Witness ==
    /\ op = "none"
    /\ Cardinality(moves_made) >= 3
    /\ safes \ moves_made # {}
    /\ Len(knowledge) >= 2
    /\ \E k \in 1 .. Len(knowledge) : Derived(k)

\* The AI after mark_safe_and_mine and extract_from_problem are run once more.
Rerun == extract_from_problem(mark_safe_and_mine(Self))

\* C16: after each completed add_knowledge call the knowledge base is a
\* fixpoint of both deduction rules: no sentence of the list has count 0 or
\* count equal to the number of its cells, no sentence's cells are a subset of
\* another sentence's cells, and running mark_safe_and_mine and
\* extract_from_problem once more changes nothing.
C16_Fixpoint ==
    /\ \A k \in 1 .. Len(knowledge) : ~Resolvable(knowledge[k])
    /\ \A k, m \in 1 .. Len(knowledge) :
          k # m => ~(knowledge[k].cells \subseteq knowledge[m].cells)
    /\ LET r == Rerun IN
          /\ ~r.err
          /\ r.mines = mines
          /\ r.safes = safes
          /\ r.moves_made = moves_made
          /\ KnowledgeOf(r) = knowledge

\* C16 witness: after several calls the list holds two sentences that share a
\* cell, neither a subset of the other, and cells never revealed are known safe.
C16_Witness ==
    /\ op = "none"
    /\ Cardinality(moves_made) >= 2
    /\ safes \ moves_made # {}
    /\ \E k, m \in 1 .. Len(knowledge) :
          k # m /\ knowledge[k].cells \cap knowledge[m].cells # {}

\* The in-bounds cells of the 3x3 window of `cell`.
InBounds(cell) == Window(cell) \cap Cells(height, width)

\* The sentence at the end of the list.
Newest(list) == list[Len(list)]

\* The start of add_knowledge has appended exactly one sentence, the one the
\* claim describes for the cell ret' and its true count.
NewSentenceBuilt ==
    /\ Len(knowledge') = Len(knowledge) + 1
    /\ \A k \in 1 .. Len(knowledge) : knowledge'[k].cells \subseteq knowledge[k].cells
    /\ Newest(knowledge').cells =
          {c \in InBounds(ret') : c \notin mines /\ c \notin safes' /\ c \notin moves_made'}
    /\ Newest(knowledge').count =
          nearby_mines(ret') - Cardinality(InBounds(ret') \cap mines)
    /\ ret' \notin Newest(knowledge').cells
    /\ Newest(knowledge').cells \subseteq Cells(height, width)

\* C17: the sentence appended by add_knowledge(cell, count) has as cells
\* exactly the in-bounds cells of the 3x3 window of the cell that are in none
\* of mines, safes and moves_made once the cell itself is recorded (so never
\* the cell itself, never a cell off the board), and as count the reported
\* count less the number of in-bounds window cells already in mines; it is
\* appended even when it has no cells.
C17_NewSentence == [][op = "none" => NewSentenceBuilt]_vars

\* C17 witness: the sentence just appended leaves out a known mine of the
\* window, with the count lowered for it, and still has cells.
C17_Witness ==
    /\ op = "mark_safe_and_mine"
    /\ InBounds(ret) \cap mines # {}
    /\ Newest(knowledge).cells # {}
    /\ Newest(knowledge).count < nearby_mines(ret)

\* The list without its last sentence.
Front(list) == SubSeq(list, 1, Len(list) - 1)

\* The call that starts with this step builds a sentence without cells.
BuildsEmpty == op = "none" /\ Newest(knowledge').cells = {}

\* The state after lines 195-197, the new sentence dropped, is the state in
\* which the whole call ends.
SkipIsFull ==
    LET r == add_knowledge_result(ret', nearby_mines(ret')) IN
        /\ r.mines = mines'
        /\ r.safes = safes'
        /\ r.moves_made = moves_made'
        /\ KnowledgeOf(r) = Front(knowledge')

\* C18 as stated: whenever the sentence built by add_knowledge has no cells,
\* stopping after lines 195-197 ends in the same mines, safes, moves_made and
\* sentence list as the whole call. The lists are compared without the empty
\* new sentence, which only the whole call purges.
C18_SkipAlways == [][BuildsEmpty => SkipIsFull]_vars

\* C18, amended: the same, for a cell that is in no sentence of the list when
\* the call starts.
C18_SkipWhenCellInNoSentence ==
    [][(BuildsEmpty /\ \A k \in 1 .. Len(knowledge) : ret' \notin knowledge[k].cells)
         => SkipIsFull]_vars

\* C18 witness: a call for a cell not played before has built a sentence
\* without cells while the list holds other sentences, none of which held the
\* cell: every sentence is as it was at the fixpoint.
C18_Witness ==
    /\ op = "mark_safe_and_mine"
    /\ Len(knowledge) >= 3
    /\ Newest(knowledge).cells = {}
    /\ \A k \in 1 .. Len(knowledge) - 1 : ~Resolvable(knowledge[k])
    /\ mines # {}

\* C19: with true counts of cells that are no mines, add_knowledge never
\* raises: every self.knowledge.remove(sentence) finds an equal sentence in the
\* list, also when the list holds equal sentences or the sentence was changed
\* by a marking earlier in the same pass.
C19_NoException == raised = FALSE

\* C19 witness: in the middle of a call the list holds two equal sentences
\* that the next pass resolves: the first is removed by value, the second is
\* emptied by the marking before the pass reaches it.
C19_Witness ==
    /\ op = "while"
    /\ \E k, m \in 1 .. Len(knowledge) :
          /\ k < m
          /\ knowledge[k] = knowledge[m]
          /\ knowledge[k].cells # {}
          /\ Resolvable(knowledge[k])

\* The mine placements the knowledge base allows: the sets of cells that hold
\* every cell of mines, no cell of safes, and of the cells of each sentence of
\* the list exactly its count.
Models ==
    {mines \cup q : q \in
        {q \in SUBSET (Cells(height, width) \ (mines \cup safes)) :
            \A k \in 1 .. Len(knowledge) :
                Cardinality(knowledge[k].cells \cap (mines \cup q)) = knowledge[k].count}}

\* Placement p agrees with the observation of `cell`: the cell is no mine and
\* its true count is the number of mines of p around it.
Observed(p, cell) ==
    /\ cell \notin p
    /\ Cardinality((InBounds(cell) \ {cell}) \cap p) = nearby_mines(cell)

\* C20: add_knowledge loses no information and adds none but the observation:
\* the start of the call narrows the set of mine placements the knowledge
\* base allows by exactly the new observation, and no later step of the call
\* (direct resolution, purge, deduplication, subset deduction with its removal
\* by value) changes that set; so the set after the call is the set before it
\* narrowed by the observation.
C20_NoInformationLost ==
    [][IF op = "none"
       THEN Models' = {p \in Models : Observed(p, ret')}
       ELSE Models' = Models]_vars

\* C20 witness: a call has returned after subset deduction; the list holds a
\* derived sentence and the knowledge base still allows several placements.
C20_Witness ==
    /\ op = "none"
    /\ Cardinality(moves_made) >= 2
    /\ \E k \in 1 .. Len(knowledge) : Derived(k)
    /\ Cardinality(Models) >= 3

====
